---- MODULE Spec2Model ----
(***************************************************************************)
(* Model of the client-side RPC stream of go-micro, client/rpc_stream.go:  *)
(* one rpcStream shared by several caller goroutines that invoke Send,     *)
(* Recv, Error and Close on it.  Each action is one segment of a method    *)
(* between two points where other goroutines can interleave (a mutex       *)
(* operation or a call into the codec).                                    *)
(***************************************************************************)
EXTENDS Integers, Sequences, FiniteSets, TLC

\* ------------------------------------------------------------------ bounds
\* total number of method calls started on the stream
MaxCalls == 3

\* the caller goroutines sharing the stream: a writer and a reader
Procs == {1, 2}
\* no goroutine
None == 0

\* ------------------------------------------------------------ error values
\* An error value is a record: its kind and the text it carries.
NilErr == [kind |-> "nil", msg |-> ""]
errShutdown == [kind |-> "errShutdown", msg |-> "connection is shut down"]
EOF == [kind |-> "io.EOF", msg |-> "EOF"]
ErrUnexpectedEOF == [kind |-> "io.ErrUnexpectedEOF", msg |-> "unexpected EOF"]
\* serverError(resp.Error): the string converted to the serverError type
serverError(s) == [kind |-> "serverError", msg |-> s]
\* the reserved end-of-stream value of the header's error field
lastStreamResponseError == "EOS"

\* errors the codec (the transport) can answer with
errWrite == [kind |-> "codec", msg |-> "write failed"]
errHeader == [kind |-> "codec", msg |-> "read header failed"]
errBody == [kind |-> "codec", msg |-> "read body failed"]
errClose == [kind |-> "codec", msg |-> "close failed"]

\* --------------------------------------------------- inputs of the methods
\* the messages a caller passes to Send
Msgs == {"m1"}
\* what codec.Write returns
WriteResults == {NilErr, errWrite}
\* what codec.ReadHeader returns: err, and the Error field of the header read
HeaderResults ==
    {[err |-> NilErr, error |-> s] :
        s \in {"", lastStreamResponseError, "insufficient funds"}}
    \cup {[err |-> e, error |-> ""] : e \in {EOF, errHeader}}
\* what codec.ReadBody returns
BodyResults == {NilErr, errBody, EOF}
\* what codec.Close returns
CloseResults == {NilErr, errClose}

\* the immutable fields of the stream: r.id and the request's descriptors
StreamId == "id-1"
ReqService == "svc"
ReqMethod == "Svc.Call"
ReqEndpoint == "Svc.Call"

\* codec.Message as Send and Close build it; body is the second argument of Write
Frame(type, error, body) ==
    [Id |-> StreamId, Target |-> ReqService, Method |-> ReqMethod,
     Endpoint |-> ReqEndpoint, Type |-> type, Error |-> error, Body |-> body]

VARIABLES
    closed,        \* r.closed has been closed (the open->closed transition)
    err,           \* r.err, the stream's last error
    wlock,         \* the goroutine holding r.Lock(), or None
    rlock,         \* the goroutines holding r.RLock()
    sendEOS,       \* r.sendEOS, fixed at creation
    pc,            \* pc[p]: where goroutine p is in the method it runs
    call,          \* call[p]: the method p runs, or ran last
    msg,           \* msg[p]: the argument of p's Send
    resp,          \* resp[p].Error: the header field p's Recv read
    lerr,          \* lerr[p]: the local variable err of Recv and Close
    ret,           \* ret[p]: what p's last finished call returned
    wire,          \* the frames handed to codec.Write, in order
    released,      \* the calls of r.release made so far
    started,       \* number of calls started
    trace,         \* trace[p]: what p's current (or last) call did, in order
    closeReturned, \* some Close has returned
    eosReturned,   \* some Recv read the end-of-stream header and returned io.EOF
    afterClose,    \* afterClose[p]: p's call started after some Close returned
    afterEOS,      \* afterEOS[p]: p's call started after eosReturned
    overlap        \* the callers may start a call while another call is running

stream == <<closed, err, wlock, rlock, sendEOS>>
locals == <<pc, call, msg, resp, lerr, ret>>
history == <<wire, released, started, trace, closeReturned,
             eosReturned, afterClose, afterEOS, overlap>>
vars == <<stream, locals, history>>

\* one entry of trace[p]
Ev(op, e, a) == [op |-> op, e |-> e, arg |-> a]

\* r.Lock() can proceed
CanLock == wlock = None /\ rlock = {}
\* r.RLock() can proceed
CanRLock == wlock = None

\* r.isClosed() of a stream whose closed channel is never seen closed
isClosedNever == FALSE

\* r.isClosed()
isClosed == closed

TypeOK ==
    /\ closed \in BOOLEAN
    /\ sendEOS \in BOOLEAN
    /\ wlock \in Procs \cup {None}
    /\ rlock \subseteq Procs
    /\ started \in 0..MaxCalls

\* no other goroutine is inside a call
Alone(p) == \A q \in Procs \ {p} : pc[q] = "idle"

\* the stream as created, no call made yet
Fresh ==
    /\ closed = FALSE
    /\ err = NilErr
    /\ wlock = None
    /\ rlock = {}
    /\ sendEOS \in BOOLEAN
    /\ pc = [p \in Procs |-> "idle"]
    /\ call = [p \in Procs |-> "none"]
    /\ msg = [p \in Procs |-> "none"]
    /\ resp = [p \in Procs |-> ""]
    /\ lerr = [p \in Procs |-> NilErr]
    /\ ret = [p \in Procs |-> NilErr]
    /\ wire = <<>>
    /\ released = <<>>
    /\ started = 0
    /\ trace = [p \in Procs |-> <<>>]
    /\ closeReturned = FALSE
    /\ eosReturned = FALSE
    /\ afterClose = [p \in Procs |-> FALSE]
    /\ afterEOS = [p \in Procs |-> FALSE]

\* the goroutines call the stream's methods at any time
Init == Fresh /\ overlap = TRUE

\* the goroutines call the stream's methods one call after the other
InitSeq == Fresh /\ overlap = FALSE

\* p starts a call of method m
Enter(p, m) ==
    /\ pc[p] = "idle"
    /\ started < MaxCalls
    /\ overlap \/ Alone(p)
    /\ overlap' = overlap
    /\ call' = [call EXCEPT ![p] = m]
    /\ started' = started + 1
    /\ trace' = [trace EXCEPT ![p] = <<>>]
    /\ afterClose' = [afterClose EXCEPT ![p] = closeReturned]
    /\ afterEOS' = [afterEOS EXCEPT ![p] = eosReturned]
    /\ resp' = [resp EXCEPT ![p] = ""]
    /\ lerr' = [lerr EXCEPT ![p] = NilErr]

\* r.err = e, by p
SetErr(p, e) ==
    /\ err' = e
    /\ trace' = [trace EXCEPT ![p] = Append(@, Ev("SetErr", e, ""))]

\* p's call returns v
Return(p, v) ==
    /\ pc' = [pc EXCEPT ![p] = "idle"]
    /\ ret' = [ret EXCEPT ![p] = v]

\* p moves on to the statement labelled l
Goto(p, l) == pc' = [pc EXCEPT ![p] = l]

\* p's call did op, with result e, on a
Did(p, op, e, a) == trace' = [trace EXCEPT ![p] = Append(@, Ev(op, e, a))]

\* ------------------------------------------------------------------- Send
\* Send on a closed stream reporting success
SendClosedErrNil == NilErr

\* the error Send records and returns on a closed stream
SendClosedErr == errShutdown

\* the frame Send writes for message m
SendFrame(m) == Frame("Request", "", m)

\* a goroutine calls Send(msg)
SendCall(p) ==
    /\ Enter(p, "Send")
    /\ \E m \in Msgs : msg' = [msg EXCEPT ![p] = m]
    /\ Goto(p, "send_lock")
    /\ UNCHANGED <<stream, ret, wire, released, closeReturned, eosReturned>>

\* r.Lock() at the head of Send
SendLock(p) ==
    /\ pc[p] = "send_lock"
    /\ CanLock
    /\ wlock' = p
    /\ Goto(p, "send_check")
    /\ UNCHANGED <<closed, err, rlock, sendEOS, call, msg, resp, lerr, ret, history>>

\* a Send that gives the lock back before it calls codec.Write
SendCheckUnlock(p) ==
    /\ pc[p] = "send_check"
    /\ IF isClosed
          THEN /\ SetErr(p, SendClosedErr)
               /\ Return(p, SendClosedErr)
               /\ UNCHANGED wire
          ELSE /\ wire' = Append(wire, SendFrame(msg[p]))
               /\ Goto(p, "send_write")
               /\ UNCHANGED <<err, trace, ret>>
    /\ wlock' = None
    /\ UNCHANGED <<closed, rlock, sendEOS, call, msg, resp, lerr, released, started,
                   closeReturned, eosReturned, afterClose, afterEOS, overlap>>

\* the closed test of Send, then either the early return or the call of codec.Write
SendCheck(p) ==
    /\ pc[p] = "send_check"
    /\ IF isClosed
          THEN /\ SetErr(p, SendClosedErr)
               /\ Return(p, SendClosedErr)
               /\ wlock' = None
               /\ UNCHANGED wire
          ELSE /\ wire' = Append(wire, SendFrame(msg[p]))
               /\ Goto(p, "send_write")
               /\ UNCHANGED <<err, trace, ret, wlock>>
    /\ UNCHANGED <<closed, rlock, sendEOS, call, msg, resp, lerr, released, started,
                   closeReturned, eosReturned, afterClose, afterEOS, overlap>>

\* a Send that closes the stream when codec.Write fails
SendWriteClose(p) ==
    /\ pc[p] = "send_write"
    /\ \E e \in WriteResults :
          /\ IF e # NilErr
                THEN /\ err' = e
                     /\ closed' = TRUE
                     /\ trace' = [trace EXCEPT ![p] =
                            @ \o <<Ev("Write", e, msg[p]), Ev("SetErr", e, "")>>]
                ELSE /\ Did(p, "Write", e, msg[p])
                     /\ UNCHANGED <<err, closed>>
          /\ Return(p, e)
    /\ wlock' = None
    /\ UNCHANGED <<rlock, sendEOS, call, msg, resp, lerr, wire, released,
                   started, closeReturned, eosReturned, afterClose, afterEOS, overlap>>

\* codec.Write returns e to Send; Send returns and its deferred Unlock runs
SendWrite(p) ==
    /\ pc[p] = "send_write"
    /\ \E e \in WriteResults :
          /\ IF e # NilErr
                THEN /\ err' = e
                     /\ trace' = [trace EXCEPT ![p] =
                            @ \o <<Ev("Write", e, msg[p]), Ev("SetErr", e, "")>>]
                ELSE /\ Did(p, "Write", e, msg[p])
                     /\ UNCHANGED err
          /\ Return(p, e)
    /\ wlock' = None
    /\ UNCHANGED <<closed, rlock, sendEOS, call, msg, resp, lerr, wire, released,
                   started, closeReturned, eosReturned, afterClose, afterEOS, overlap>>

\* ------------------------------------------------------------------- Recv
\* the error Recv records and returns on a closed stream
RecvClosedErr == errShutdown

\* the header's error passed on as it came, whatever the stream's state
HeaderErrRaw(e, c) == e

\* the error Recv records and returns when ReadHeader failed with e,
\* c being the answer of r.isClosed()
HeaderErr(e, c) == IF e = EOF /\ ~c THEN ErrUnexpectedEOF ELSE e

\* the error Recv records for a header whose Error field s is not empty
ResponseErr(s) == IF s # lastStreamResponseError THEN serverError(s) ELSE EOF

\* the second argument of codec.ReadBody for a header whose Error field is s
BodyTarget(s) == IF s # "" THEN "nil" ELSE "msg"

\* Recv returning its local err in place of r.err
RecvResultLocal(e, cur) == e

\* what Recv returns at its end: r.err, cur being r.err before the body's
\* error e, if any, is recorded
RecvResult(e, cur) == IF e # NilErr THEN e ELSE cur

\* a goroutine calls Recv(msg)
RecvCall(p) ==
    /\ Enter(p, "Recv")
    /\ Goto(p, "recv_lock")
    /\ UNCHANGED <<stream, msg, ret, wire, released, closeReturned, eosReturned>>

\* r.Lock() at the head of Recv
RecvLock(p) ==
    /\ pc[p] = "recv_lock"
    /\ CanLock
    /\ wlock' = p
    /\ Goto(p, "recv_check")
    /\ UNCHANGED <<closed, err, rlock, sendEOS, call, msg, resp, lerr, ret, history>>

\* a Recv that calls codec.ReadHeader without r.Unlock() before it
RecvCheckLocked(p) ==
    /\ pc[p] = "recv_check"
    /\ IF isClosed
          THEN /\ SetErr(p, RecvClosedErr)
               /\ Return(p, RecvClosedErr)
               /\ wlock' = None
          ELSE /\ Goto(p, "recv_header")
               /\ UNCHANGED <<err, trace, ret, wlock>>
    /\ UNCHANGED <<closed, rlock, sendEOS, call, msg, resp, lerr, wire, released,
                   started, closeReturned, eosReturned, afterClose, afterEOS, overlap>>

\* the closed test of Recv, then either the early return or r.Unlock() and
\* the call of codec.ReadHeader
RecvCheck(p) ==
    /\ pc[p] = "recv_check"
    /\ IF isClosed
          THEN /\ SetErr(p, RecvClosedErr)
               /\ Return(p, RecvClosedErr)
          ELSE /\ Goto(p, "recv_header")
               /\ UNCHANGED <<err, trace, ret>>
    /\ wlock' = None
    /\ UNCHANGED <<closed, rlock, sendEOS, call, msg, resp, lerr, wire, released,
                   started, closeReturned, eosReturned, afterClose, afterEOS, overlap>>

\* codec.ReadHeader returns, the lock not held
RecvReadHeader(p) ==
    /\ pc[p] = "recv_header"
    /\ \E h \in HeaderResults :
          /\ resp' = [resp EXCEPT ![p] = h.error]
          /\ lerr' = [lerr EXCEPT ![p] = h.err]
          /\ Did(p, "ReadHeader", h.err, h.error)
    /\ Goto(p, "recv_lock1")
    /\ UNCHANGED <<stream, call, msg, ret, wire, released, started,
                   closeReturned, eosReturned, afterClose, afterEOS, overlap>>

\* r.Lock() after ReadHeader
RecvLock1(p) ==
    /\ pc[p] = "recv_lock1"
    /\ CanLock
    /\ wlock' = p
    /\ Goto(p, "recv_resp")
    /\ UNCHANGED <<closed, err, rlock, sendEOS, call, msg, resp, lerr, ret, history>>

\* a Recv whose return on a failed ReadHeader leaves the lock held
RecvRespHold(p) ==
    /\ pc[p] = "recv_resp"
    /\ IF lerr[p] # NilErr
          THEN /\ SetErr(p, HeaderErr(lerr[p], isClosed))
               /\ Return(p, HeaderErr(lerr[p], isClosed))
               /\ UNCHANGED wlock
          ELSE /\ IF resp[p] # ""
                     THEN SetErr(p, ResponseErr(resp[p]))
                     ELSE UNCHANGED <<err, trace>>
               /\ Goto(p, "recv_body")
               /\ wlock' = None
               /\ UNCHANGED ret
    /\ UNCHANGED <<closed, rlock, sendEOS, call, msg, resp, lerr, wire, released,
                   started, closeReturned, eosReturned, afterClose, afterEOS, overlap>>

\* Recv looks at what ReadHeader gave: the failure return, or the switch on
\* resp.Error followed by r.Unlock() and the call of codec.ReadBody
RecvResp(p) ==
    /\ pc[p] = "recv_resp"
    /\ IF lerr[p] # NilErr
          THEN /\ SetErr(p, HeaderErr(lerr[p], isClosed))
               /\ Return(p, HeaderErr(lerr[p], isClosed))
          ELSE /\ IF resp[p] # ""
                     THEN SetErr(p, ResponseErr(resp[p]))
                     ELSE UNCHANGED <<err, trace>>
               /\ Goto(p, "recv_body")
               /\ UNCHANGED ret
    /\ wlock' = None
    /\ UNCHANGED <<closed, rlock, sendEOS, call, msg, resp, lerr, wire, released,
                   started, closeReturned, eosReturned, afterClose, afterEOS, overlap>>

\* codec.ReadBody returns, the lock not held
RecvReadBody(p) ==
    /\ pc[p] = "recv_body"
    /\ \E e \in BodyResults :
          /\ lerr' = [lerr EXCEPT ![p] = e]
          /\ Did(p, "ReadBody", e, BodyTarget(resp[p]))
    /\ Goto(p, "recv_lock2")
    /\ UNCHANGED <<stream, call, msg, resp, ret, wire, released, started,
                   closeReturned, eosReturned, afterClose, afterEOS, overlap>>

\* r.Lock() after ReadBody
RecvLock2(p) ==
    /\ pc[p] = "recv_lock2"
    /\ CanLock
    /\ wlock' = p
    /\ Goto(p, "recv_finish")
    /\ UNCHANGED <<closed, err, rlock, sendEOS, call, msg, resp, lerr, ret, history>>

\* Recv records the body's error, if any, returns r.err and its deferred Unlock runs
RecvFinish(p) ==
    /\ pc[p] = "recv_finish"
    /\ IF lerr[p] # NilErr
          THEN SetErr(p, lerr[p])
          ELSE UNCHANGED <<err, trace>>
    /\ Return(p, RecvResult(lerr[p], err))
    /\ eosReturned' = (eosReturned \/ (resp[p] = lastStreamResponseError
                                       /\ RecvResult(lerr[p], err) = EOF))
    /\ wlock' = None
    /\ UNCHANGED <<closed, rlock, sendEOS, call, msg, resp, lerr, wire, released,
                   started, closeReturned, afterClose, afterEOS, overlap>>

\* ------------------------------------------------------------------ Error
\* a goroutine calls Error()
ErrorCall(p) ==
    /\ Enter(p, "Error")
    /\ Goto(p, "error_rlock")
    /\ UNCHANGED <<stream, msg, ret, wire, released, closeReturned, eosReturned>>

\* r.RLock() at the head of Error
ErrorRLock(p) ==
    /\ pc[p] = "error_rlock"
    /\ CanRLock
    /\ rlock' = rlock \cup {p}
    /\ Goto(p, "error_read")
    /\ UNCHANGED <<closed, err, wlock, sendEOS, call, msg, resp, lerr, ret, history>>

\* Error returns r.err and its deferred RUnlock runs
ErrorRead(p) ==
    /\ pc[p] = "error_read"
    /\ rlock' = rlock \ {p}
    /\ Return(p, err)
    /\ UNCHANGED <<closed, err, wlock, sendEOS, call, msg, resp, lerr, history>>

\* ------------------------------------------------------------------ Close
\* a terminator frame without the reserved value in its Error field
EOSFrameNoSentinel == Frame("Error", "", "nil")

\* the terminator frame Close writes when r.sendEOS is set
EOSFrame == Frame("Error", lastStreamResponseError, "nil")

\* a Close that drops codec.Close's error
CloseResultNil(e) == NilErr

\* what the Close that closed the stream returns, e being codec.Close's error
CloseResult(e) == e

\* the release hook called with nil, whatever the stream's last error
ReleaseArgNil(cur) == NilErr

\* the argument Close gives the release hook, cur being what r.Error() returned
ReleaseArg(cur) == cur

\* a goroutine calls Close()
CloseCall(p) ==
    /\ Enter(p, "Close")
    /\ Goto(p, "close_lock")
    /\ UNCHANGED <<stream, msg, ret, wire, released, closeReturned, eosReturned>>

\* r.Lock() at the head of Close
CloseLock(p) ==
    /\ pc[p] = "close_lock"
    /\ CanLock
    /\ wlock' = p
    /\ Goto(p, "close_select")
    /\ UNCHANGED <<closed, err, rlock, sendEOS, call, msg, resp, lerr, ret, history>>

\* a select of Close whose closed branch, not returning, goes on to release
\* the connection
CloseSelectRelease(p) ==
    /\ pc[p] = "close_select"
    /\ IF isClosed
          THEN /\ Goto(p, "close_rlock")
               /\ UNCHANGED <<closed, trace>>
          ELSE /\ closed' = TRUE
               /\ Did(p, "Transition", NilErr, "")
               /\ Goto(p, "close_eos")
    /\ wlock' = None
    /\ UNCHANGED <<err, rlock, sendEOS, call, msg, resp, lerr, ret, wire, released,
                   started, closeReturned, eosReturned, afterClose, afterEOS, overlap>>

\* the select of Close: return nil when r.closed is closed already, otherwise
\* close it; r.Unlock() on both branches
CloseSelect(p) ==
    /\ pc[p] = "close_select"
    /\ IF isClosed
          THEN /\ Return(p, NilErr)
               /\ closeReturned' = TRUE
               /\ UNCHANGED <<closed, trace>>
          ELSE /\ closed' = TRUE
               /\ Did(p, "Transition", NilErr, "")
               /\ Goto(p, "close_eos")
               /\ UNCHANGED <<ret, closeReturned>>
    /\ wlock' = None
    /\ UNCHANGED <<err, rlock, sendEOS, call, msg, resp, lerr, wire, released,
                   started, eosReturned, afterClose, afterEOS, overlap>>

\* the test of r.sendEOS and, when set, the call of codec.Write with the terminator
CloseEOS(p) ==
    /\ pc[p] = "close_eos"
    /\ IF sendEOS
          THEN /\ wire' = Append(wire, EOSFrame)
               /\ Goto(p, "close_write")
          ELSE /\ Goto(p, "close_codec")
               /\ UNCHANGED wire
    /\ UNCHANGED <<stream, call, msg, resp, lerr, ret, released, started, trace,
                   closeReturned, eosReturned, afterClose, afterEOS, overlap>>

\* codec.Write of the terminator returns; Close does not look at its result
CloseWrite(p) ==
    /\ pc[p] = "close_write"
    /\ \E e \in WriteResults : Did(p, "Write", e, "nil")
    /\ Goto(p, "close_codec")
    /\ UNCHANGED <<stream, call, msg, resp, lerr, ret, wire, released, started,
                   closeReturned, eosReturned, afterClose, afterEOS, overlap>>

\* err := r.codec.Close()
CloseCodec(p) ==
    /\ pc[p] = "close_codec"
    /\ \E e \in CloseResults :
          /\ lerr' = [lerr EXCEPT ![p] = e]
          /\ Did(p, "CodecClose", e, "")
    /\ Goto(p, "close_rlock")
    /\ UNCHANGED <<stream, call, msg, resp, ret, wire, released, started,
                   closeReturned, eosReturned, afterClose, afterEOS, overlap>>

\* r.RLock() of the r.Error() that Close calls
CloseRLock(p) ==
    /\ pc[p] = "close_rlock"
    /\ CanRLock
    /\ rlock' = rlock \cup {p}
    /\ Goto(p, "close_release")
    /\ UNCHANGED <<closed, err, wlock, sendEOS, call, msg, resp, lerr, ret, history>>

\* r.Error() returns r.err and runs its RUnlock, r.release is called with it,
\* and Close returns codec.Close's error
CloseRelease(p) ==
    /\ pc[p] = "close_release"
    /\ rlock' = rlock \ {p}
    /\ released' = Append(released, [by |-> p, arg |-> ReleaseArg(err), call |-> call[p],
                                     transition |-> \E i \in 1..Len(trace[p]) :
                                                        trace[p][i].op = "Transition"])
    /\ Did(p, "Release", ReleaseArg(err), "")
    /\ Return(p, CloseResult(lerr[p]))
    /\ closeReturned' = TRUE
    /\ UNCHANGED <<closed, err, wlock, sendEOS, call, msg, resp, lerr, wire, started,
                   eosReturned, afterClose, afterEOS, overlap>>

\* -------------------------------------------------------------------- Next
\* one step of goroutine p
Step(p) ==
    \/ SendCall(p)
    \/ SendLock(p)
    \/ SendCheck(p)
    \/ SendWrite(p)
    \/ RecvCall(p)
    \/ RecvLock(p)
    \/ RecvCheck(p)
    \/ RecvReadHeader(p)
    \/ RecvLock1(p)
    \/ RecvResp(p)
    \/ RecvReadBody(p)
    \/ RecvLock2(p)
    \/ RecvFinish(p)
    \/ ErrorCall(p)
    \/ ErrorRLock(p)
    \/ ErrorRead(p)
    \/ CloseCall(p)
    \/ CloseLock(p)
    \/ CloseSelect(p)
    \/ CloseEOS(p)
    \/ CloseWrite(p)
    \/ CloseCodec(p)
    \/ CloseRLock(p)
    \/ CloseRelease(p)

Next == \E p \in Procs : Step(p)

\* every interleaving of the goroutines' calls
Spec == Init /\ [][Next]_vars

\* the calls do not overlap: a call starts only when every other call has returned
SpecSeq == InitSeq /\ [][Next]_vars

\* the steps of p that are the stream's own code or a codec.Write or
\* codec.Close returning: every step but the start of a call and the return
\* of codec.ReadHeader or codec.ReadBody
Runs(p) ==
    \/ SendLock(p) \/ SendCheck(p) \/ SendWrite(p)
    \/ RecvLock(p) \/ RecvCheck(p) \/ RecvLock1(p) \/ RecvResp(p)
    \/ RecvLock2(p) \/ RecvFinish(p)
    \/ ErrorRLock(p) \/ ErrorRead(p)
    \/ CloseLock(p) \/ CloseSelect(p) \/ CloseEOS(p) \/ CloseWrite(p)
    \/ CloseCodec(p) \/ CloseRLock(p) \/ CloseRelease(p)

\* codec.ReadHeader or codec.ReadBody returns to p
Reads(p) == RecvReadHeader(p) \/ RecvReadBody(p)

\* every interleaving in which a goroutine that can run does run, and
\* codec.Write and codec.Close return; codec.ReadHeader and codec.ReadBody
\* may block for ever
SpecReadsMayBlock ==
    Init /\ [][Next]_vars /\ \A p \in Procs : WF_vars(Runs(p))

\* the same, with every call into the codec returning
SpecReadsReturn ==
    Init /\ [][Next]_vars /\ \A p \in Procs : WF_vars(Runs(p)) /\ WF_vars(Reads(p))

\* ------------------------------------------------------- reading the history
\* p's last call was of method m and has returned
Done(p, m) == pc[p] = "idle" /\ call[p] = m

\* where p's current call did one of the operations ops
Ops(p, ops) == {i \in 1..Len(trace[p]) : trace[p][i].op \in ops}

\* the calls into the codec
CodecOps == {"Write", "ReadHeader", "ReadBody", "CodecClose"}

\* p is inside a call into the codec
InCodec(p) == pc[p] \in {"send_write", "recv_header", "recv_body", "close_write"}

\* every call has returned
Quiescent == \A p \in Procs : pc[p] = "idle"

\* ------------------------------------------------------------------- claims

\* C1: the release hook is invoked at most once, only by the Close call that
\* made the open->closed transition (never by Send or Recv); and when every
\* call has returned it has been invoked exactly once if some Close was
\* called and not at all otherwise.
C1_ReleaseExactlyOnce ==
    /\ Len(released) <= 1
    /\ \A i \in 1..Len(released) :
          released[i].call = "Close" /\ released[i].transition
    /\ Quiescent => Len(released) = (IF closeReturned THEN 1 ELSE 0)

\* two Close calls have returned, one of them having released the connection
C1_Witness ==
    /\ Quiescent
    /\ \A p \in Procs : call[p] = "Close"
    /\ Len(released) = 1

\* C2: a Send or Recv that starts after some Close has returned makes no call
\* into the codec, records errShutdown as the last error and returns it.
C2_ClosedRejects ==
    \A p \in Procs :
        (afterClose[p] /\ call[p] \in {"Send", "Recv"}) =>
            /\ ~InCodec(p)
            /\ Ops(p, CodecOps) = {}
            /\ pc[p] = "idle" =>
                  /\ ret[p] = errShutdown
                  /\ trace[p] = <<Ev("SetErr", errShutdown, "")>>

\* after a Close returned, one goroutine's Send and the other's Recv have returned
C2_Witness ==
    \E p, q \in Procs :
        /\ afterClose[p] /\ Done(p, "Send")
        /\ afterClose[q] /\ Done(q, "Recv")

\* C3: a Recv that starts after a Recv read the end-of-stream header and
\* returned io.EOF returns io.EOF too, as long as the stream is open,
\* whatever the codec answers.
C3_EOSSticky ==
    \A p \in Procs :
        (Done(p, "Recv") /\ afterEOS[p] /\ ~closed) => ret[p] = EOF

\* C4: when the calls do not overlap and a Close follows Send and Recv calls,
\* with no call after it, the release hook has been called once, by that
\* Close, with the error last recorded in r.err (nil if none was).
C4_ReleaseLastError ==
    \A p \in Procs :
        (Done(p, "Close") /\ \A q \in Procs : ~afterClose[q]) =>
            /\ Len(released) = 1
            /\ released[1].by = p
            /\ released[1].arg = err

\* a Close has released the connection with an error that a Recv recorded
C4_Witness ==
    \E p \in Procs :
        /\ Done(p, "Close") /\ \A q \in Procs : ~afterClose[q]
        /\ Len(released) = 1
        /\ released[1].arg = serverError("insufficient funds")

\* the terminator frames among the frames written
Terminators == {i \in 1..Len(wire) : wire[i].Type = "Error"}

\* p is in, or back from, the Close call that closed the stream
Closer(p) == call[p] = "Close" /\ Ops(p, {"Transition"}) # {}

\* C5: with sendEOS set, the Close that closes the stream writes one
\* terminator frame (type Error, the reserved value as its error, the stream's
\* id and descriptors, nil body), after the open->closed transition and before
\* codec.Close; with sendEOS unset no terminator is written; no other
\* terminator is ever written.
C5_EOSOnClose ==
    /\ Cardinality(Terminators) <= 1
    /\ \A i \in Terminators :
          wire[i] = [Id |-> StreamId, Target |-> ReqService, Method |-> ReqMethod,
                     Endpoint |-> ReqEndpoint, Type |-> "Error",
                     Error |-> lastStreamResponseError, Body |-> "nil"]
    /\ ~sendEOS => Terminators = {}
    /\ ~closed => Terminators = {}
    /\ (sendEOS /\ released # <<>>) => Cardinality(Terminators) = 1
    /\ \A p \in Procs :
          Closer(p) =>
             /\ pc[p] = "close_eos" =>
                   Terminators = {} /\ Ops(p, {"CodecClose"}) = {}
             /\ pc[p] = "close_write" => Ops(p, {"Write", "CodecClose"}) = {}
             /\ (sendEOS /\ pc[p] # "close_eos") => Cardinality(Terminators) = 1
             /\ (sendEOS /\ Ops(p, {"CodecClose"}) # {}) =>
                   \E i \in Ops(p, {"Write"}) :
                       \A j \in Ops(p, {"CodecClose"}) : i < j

\* with sendEOS set, two Close calls have returned and one terminator was written
C5_Witness ==
    /\ sendEOS
    /\ \A p \in Procs : Done(p, "Close")
    /\ \E p \in Procs : Ops(p, {"CodecClose"}) # {}
    /\ Cardinality(Terminators) = 1

\* C6: a Close that finds r.closed closed already returns nil and does nothing
\* else: no frame written, no codec.Close, no release, r.err unchanged.
C6_CloseIdempotent ==
    [][\A p \in Procs :
          (pc[p] = "close_select" /\ closed /\ pc'[p] # "close_select") =>
              /\ pc'[p] = "idle"
              /\ ret'[p] = NilErr
              /\ trace'[p] = <<>>
              /\ UNCHANGED <<closed, err, wire, released>>]_vars

\* a Close that did nothing has returned on a stream that another Close closed
C6_Witness ==
    \E p \in Procs :
        /\ Done(p, "Close")
        /\ trace[p] = <<>>
        /\ closed
        /\ released # <<>>

\* what a Recv did whose header came without error and whose body was read
\* into the caller's message without error
FullSuccess == <<Ev("ReadHeader", NilErr, ""), Ev("ReadBody", NilErr, "msg")>>

\* C7 as stated: a Recv whose header and body reads succeed returns nil,
\* whatever was recorded before.
C7_SuccessReturnsNil ==
    \A p \in Procs :
        (Done(p, "Recv") /\ trace[p] = FullSuccess) => ret[p] = NilErr

\* C7 as amended: a Recv whose header and body reads succeed returns r.err as
\* it stands when Recv returns, and leaves it as it is: nil if no call has
\* recorded an error, the last recorded error otherwise.
C7_SuccessReturnsLastError ==
    [][\A p \in Procs :
          (pc[p] = "recv_finish" /\ trace[p] = FullSuccess
           /\ pc'[p] # "recv_finish") =>
              /\ pc'[p] = "idle"
              /\ ret'[p] = err
              /\ err' = err]_vars

\* a Recv whose reads succeeded has returned an error recorded before it
C7_Witness ==
    \E p \in Procs :
        /\ Done(p, "Recv")
        /\ trace[p] = FullSuccess
        /\ ret[p] = errWrite

\* C8: when ReadHeader fails with io.EOF and the stream is not closed, Recv
\* records and returns io.ErrUnexpectedEOF and reads no body; when it fails
\* with another error, Recv records and returns that error and reads no body.
C8_UnexpectedEOF ==
    [][\A p \in Procs :
          (pc[p] = "recv_resp" /\ lerr[p] # NilErr /\ pc'[p] # "recv_resp"
           /\ (lerr[p] = EOF => ~closed)) =>
              LET e == IF lerr[p] = EOF THEN ErrUnexpectedEOF ELSE lerr[p] IN
              /\ pc'[p] = "idle"
              /\ ret'[p] = e
              /\ err' = e
              /\ trace'[p] = <<Ev("ReadHeader", lerr[p], ""), Ev("SetErr", e, "")>>]_vars

\* a Recv has returned io.ErrUnexpectedEOF on an open stream
C8_Witness ==
    \E p \in Procs :
        /\ Done(p, "Recv")
        /\ ~closed
        /\ ret[p] = ErrUnexpectedEOF
        /\ trace[p][1] = Ev("ReadHeader", EOF, "")

\* p's Recv has returned after reading a header without error whose Error field is s
ReadHeaderWith(p, s) ==
    /\ Done(p, "Recv")
    /\ Len(trace[p]) >= 1
    /\ trace[p][1] = Ev("ReadHeader", NilErr, s)

\* the body reads of p's call
BodyReads(p) == [i \in Ops(p, {"ReadBody"}) |-> trace[p][i].arg]

\* C9: a Recv that read a header whose Error field is a server's error text
\* returns serverError of that text, having recorded it in r.err, and having
\* read the body once, into nil.
C9_ServerError ==
    \A p \in Procs :
        ReadHeaderWith(p, "insufficient funds") =>
            /\ ret[p] = serverError("insufficient funds")
            /\ \E i \in Ops(p, {"SetErr"}) :
                  trace[p][i].e = serverError("insufficient funds")
            /\ Cardinality(DOMAIN BodyReads(p)) = 1
            /\ \A i \in DOMAIN BodyReads(p) : BodyReads(p)[i] = "nil"

\* C10: a Recv that read a header whose Error field is the reserved
\* end-of-stream value records io.EOF in r.err and returns io.EOF, no other error.
C10_GracefulEOS ==
    \A p \in Procs :
        ReadHeaderWith(p, lastStreamResponseError) =>
            /\ ret[p] = EOF
            /\ \E i \in Ops(p, {"SetErr"}) : trace[p][i].e = EOF

\* C11: when codec.Write fails inside Send, Send records that error in r.err
\* and returns it, and nothing else changes: the stream is still open, no
\* codec.Close, no release; and errShutdown is returned by Send and Recv only
\* on a closed stream, so a following call still reaches the codec.
C11_WriteFailureKeepsOpen ==
    /\ [][\A p \in Procs :
             (pc[p] = "send_write" /\ pc'[p] # "send_write"
              /\ trace'[p][1].e # NilErr) =>
                 /\ trace'[p] = <<Ev("Write", trace'[p][1].e, msg[p]),
                                  Ev("SetErr", trace'[p][1].e, "")>>
                 /\ pc'[p] = "idle"
                 /\ ret'[p] = trace'[p][1].e
                 /\ err' = trace'[p][1].e
                 /\ ~closed /\ ~closed'
                 /\ UNCHANGED <<wire, released>>]_vars
    /\ [](\A p \in Procs :
             (call[p] \in {"Send", "Recv"} /\ pc[p] = "idle"
              /\ ret[p] = errShutdown) => closed)

\* a Send is inside codec.Write on an open stream whose last error is the
\* write error of an earlier Send
C11_Witness ==
    \E p \in Procs :
        /\ pc[p] = "send_write"
        /\ err = errWrite
        /\ ~closed
        /\ released = <<>>

\* C12: the Close that closed the stream returns what codec.Close returned;
\* it does, in this order, the terminator write (when sendEOS is set), then
\* codec.Close, then the release hook, and nothing else: whether the
\* terminator write fails or not, its error is neither recorded in r.err nor
\* returned, and codec.Close and the release hook still run.
C12_CloseReturnsCodecError ==
    \A p \in Procs :
        (Closer(p) /\ pc[p] = "idle") =>
            \E w \in WriteResults, c \in CloseResults, a \in {released[1].arg} :
                /\ trace[p] = <<Ev("Transition", NilErr, "")>>
                               \o (IF sendEOS THEN <<Ev("Write", w, "nil")>> ELSE <<>>)
                               \o <<Ev("CodecClose", c, ""), Ev("Release", a, "")>>
                /\ ret[p] = c
                /\ released[1].by = p

\* a Close whose terminator write failed has returned codec.Close's error,
\* with r.err still nil
C12_Witness ==
    \E p \in Procs :
        /\ Closer(p) /\ pc[p] = "idle"
        /\ trace[p][2] = Ev("Write", errWrite, "nil")
        /\ ret[p] = errClose
        /\ err = NilErr
        /\ released[1].arg = NilErr

\* C13: once r.err holds an error other than io.EOF, no step sets it back to
\* nil or to another error.
C13_TerminalErrorKept ==
    [][(err # NilErr /\ err # EOF) => err' = err]_vars

\* C14: once r.closed is closed, no Send or Recv calls into the codec
\* (Write, ReadHeader, ReadBody) and every Send or Recv that returns,
\* returns errShutdown; a Recv that was inside ReadHeader when the stream
\* was closed is included.
C14_NoCodecAfterClose ==
    [][\A p \in Procs :
          (closed /\ call[p] \in {"Send", "Recv"} /\ pc'[p] # pc[p]) =>
              /\ pc'[p] \notin {"send_write", "recv_header", "recv_body"}
              /\ pc'[p] = "idle" => ret'[p] = errShutdown]_vars

\* C15: once the release hook has been called r.err does not change any
\* more, so when every call has returned the hook's argument is r.err.
C15_ReleaseGetsFinalError ==
    /\ [][released # <<>> => err' = err]_vars
    /\ []((Quiescent /\ released # <<>>) => released[1].arg = err)

\* C16: a Recv inside codec.ReadHeader or codec.ReadBody does not hold the
\* lock; while a Recv stays inside ReadHeader, which may never return, a Send
\* waiting for the lock of the open stream gets it, writes its frame and
\* returns, and a Close waiting for the lock returns.
C16_ReadsOutsideLock ==
    /\ [](\A p \in Procs :
             pc[p] \in {"recv_header", "recv_body"} => (wlock # p /\ p \notin rlock))
    /\ \A p \in Procs : \A q \in Procs \ {p} :
          /\ (pc[q] = "recv_header" /\ pc[p] = "send_lock" /\ ~closed)
                ~> (\/ pc[q] # "recv_header"
                    \/ /\ Done(p, "Send")
                       /\ Len(trace[p]) >= 1
                       /\ trace[p][1].op = "Write" /\ trace[p][1].arg = msg[p])
          /\ (pc[q] = "recv_header" /\ pc[p] = "close_lock")
                ~> Done(p, "Close")

\* a Recv is still inside ReadHeader when the other goroutine's Send has
\* written its frame and its Close has closed the stream and returned
C16_Witness ==
    \E p \in Procs : \E q \in Procs \ {p} :
        /\ pc[q] = "recv_header"
        /\ Done(p, "Close") /\ Closer(p)
        /\ \E i \in 1..Len(wire) : wire[i].Type = "Request"

\* the goroutines inside codec.Write
Writers == {p \in Procs : pc[p] \in {"send_write", "close_write"}}

\* C17: at most one codec.Write is in progress at any time, whether of two
\* Sends or of a Send and the terminator of Close; a Send's write is over
\* before the open->closed transition, and no Request frame follows the
\* terminator frame.
C17_WritesSerialised ==
    /\ Cardinality(Writers) <= 1
    /\ \A p \in Procs : pc[p] = "send_write" => (~closed /\ wlock = p)
    /\ \A p \in Procs : pc[p] = "close_write" => closed
    /\ \A i \in Terminators : \A j \in 1..Len(wire) :
          wire[j].Type = "Request" => j < i

\* Close is writing the terminator after a Request frame while a Send that
\* started meanwhile holds the lock of the closed stream
C17_Witness ==
    \E p \in Procs : \E q \in Procs \ {p} :
        /\ pc[p] = "close_write"
        /\ pc[q] = "send_check"
        /\ Len(wire) = 2
        /\ wire[1].Type = "Request" /\ wire[2].Type = "Error"

\* ReadHeader has given p's Recv a header and its ReadBody has not returned yet
BetweenReads(p) ==
    /\ pc[p] \in {"recv_lock1", "recv_resp", "recv_body"}
    /\ lerr[p] = NilErr

\* C18: between the ReadHeader and the ReadBody of one Recv no other Recv
\* completes a ReadHeader or a ReadBody.
C18_RecvReadsAtomic ==
    [][\A p \in Procs : \A q \in Procs \ {p} :
          (BetweenReads(p) /\ pc[q] \in {"recv_header", "recv_body"}) =>
              pc'[q] = pc[q]]_vars

\* C19: r.err becomes io.EOF only in the Recv that has read a header whose
\* Error field is the reserved value, and a Recv returns io.EOF only when it
\* has read such a header or r.err was io.EOF already.
C19_EOFOnlyFromSentinel ==
    [][/\ (err' = EOF /\ err # EOF) =>
             \E p \in Procs : /\ pc[p] = "recv_resp" /\ pc'[p] = "recv_body"
                               /\ resp[p] = lastStreamResponseError
       /\ \A p \in Procs :
             (call[p] = "Recv" /\ pc[p] # "idle" /\ pc'[p] = "idle" /\ ret'[p] = EOF) =>
                 (resp[p] = lastStreamResponseError \/ err = EOF)]_vars

\* the statements p executes between r.Lock() and the matching r.Unlock()
Locked == {"send_check", "send_write", "recv_check", "recv_resp", "recv_finish",
           "close_select"}

\* the statements p executes between r.RLock() and the matching r.RUnlock()
RLocked == {"error_read", "close_release"}

\* C20: a goroutine holds the write lock exactly where the code is between
\* Lock and Unlock and the read lock exactly where it is between RLock and
\* RUnlock, so that no unlock finds the lock not held and a call that has
\* returned holds nothing; a writer excludes everybody else; and, every call
\* into the codec returning, every call that has started returns.
C20_LockDiscipline ==
    /\ [](\A p \in Procs :
             /\ (wlock = p) <=> (pc[p] \in Locked)
             /\ (p \in rlock) <=> (pc[p] \in RLocked))
    /\ [](wlock \in Procs \cup {None} /\ (wlock # None => rlock = {}))
    /\ \A p \in Procs : (pc[p] # "idle") ~> (pc[p] = "idle")

\* a Recv has returned early, on a failed ReadHeader, and the other goroutine's
\* Close is inside r.Error() with the read lock
C20_Witness ==
    \E p \in Procs : \E q \in Procs \ {p} :
        /\ Done(p, "Recv")
        /\ Len(trace[p]) = 2
        /\ trace[p][1].op = "ReadHeader" /\ trace[p][1].e # NilErr
        /\ pc[q] = "close_release" /\ rlock = {q} /\ wlock = None
====
